---- MODULE Spec2Model ----
(***************************************************************************)
(* A model of the rel workspace: the slab allocator of rel_slab_allocator, *)
(* the relative pointer move protocol of rel_core, the checked             *)
(* emplace/move entry points, the runtime uniqueness token and            *)
(* split_unique of mischief, the relative pointer itself, RelVec of        *)
(* rel_alloc on a slab with u8 and with RelBox elements, and the owned     *)
(* value handle Val of situ.                                               *)
(*                                                                         *)
(* Modelled configuration: target_pointer_width = "16" with the basis_16   *)
(* feature (rel_core/src/basis.rs:162-166), the narrowest configuration    *)
(* the source supports.  usize arithmetic is therefore modulo 2^16, the    *)
(* Basis integers are 2 bytes wide and SlabControl, three U16 cells and a  *)
(* zero-sized token under repr(C, align(8)), occupies 8 bytes.             *)
(* The relative pointer alone is also modelled where pointers are wider   *)
(* than the 2 byte basis, the one case in which a conversion to the basis  *)
(* can fail.                                                               *)
(***************************************************************************)
EXTENDS Integers, FiniteSets, Sequences, TLC

\* ------------------------------------------------------------------------
\* Program constants
\* ------------------------------------------------------------------------

\* Width of the native usize.
UsizeBits == 16

\* Layout::new::<SlabControl>() : size and alignment.
CONTROL_SIZE == 8

CONTROL_ALIGN == 8

\* Layout of a RelPtr / RelRef with a 16 bit basis and () metadata.
REL_PTR_SIZE == 2

\* Alignment of the frames handed out by Align16::frame.
ALIGN16 == 16

\* ------------------------------------------------------------------------
\* Bounds of the model
\* ------------------------------------------------------------------------

\* Largest backing buffer handed to try_new_in.
MaxBufLen == 24

\* Largest used length or capacity found stored in a buffer that is reopened.
MaxStored == 25

\* Largest size of a raw allocate request.
MaxSize == 3

\* Most OwnedVal handles alive at once.
MaxVals == 2

\* Most OwnedVal destructor runs in one behaviour.
MaxDrops == 1

\* Most RelSlabAllocator values emplaced in one behaviour, on their own or
\* inside a RelBox.
MaxBoxes == 1

\* Most relocations (copy to a new buffer and reopen) in one behaviour.
MaxRelocs == 1

UsizeModulus == 2 ^ UsizeBits

\* Alignments a Layout may carry (powers of two).
Aligns == {1, 2, 4, 8, 16}

\* Base addresses of the first backing buffer: one aligned for the control
\* block, one not.
Bases == {8 * CONTROL_ALIGN, 8 * CONTROL_ALIGN + 4}

\* Base address of the frame a relocated buffer is copied to.
NewBase(b) == b + 4 * ALIGN16

\* Lengths of the first backing buffer: too short for the control block,
\* barely long enough, and three that leave room for a payload.
BufLens == {CONTROL_SIZE - 1, CONTROL_SIZE + 1, MaxBufLen - 8,
            MaxBufLen - 3, MaxBufLen}

\* The value layouts emplace_in is used with: a unit value, a portable I32,
\* a RelBox<I32, RelSlabAllocator> and a bare RelSlabAllocator.
Kinds == {"Unit", "AlignedUnit", "I32", "RelBox", "RelSlabAllocator"}

\* Alignment of the zero-sized type AlignedUnit.  A frame for a zero-sized
\* value is not allocated: its address is the alignment of the type.
UNIT_ALIGN == 8 * ALIGN16

KindSize(k) ==
    IF k \in {"Unit", "AlignedUnit"} THEN 0
    ELSE IF k = "RelSlabAllocator" THEN REL_PTR_SIZE
    ELSE IF k = "RelBox" THEN 2 * REL_PTR_SIZE
    ELSE 4

KindAlign(k) ==
    IF k = "Unit" THEN 1
    ELSE IF k = "AlignedUnit" THEN UNIT_ALIGN
    ELSE IF k = "I32" THEN 4
    ELSE 2

Handles == {"SlabAllocator", "Copy", "RelSlabAllocator"}

VARIABLES
    overflow_checks, \* build profile: are integer overflow checks compiled in
    base,            \* address of the backing buffer
    buflen,          \* length of the backing buffer
    root,            \* SlabControl.root, as stored in the buffer
    len,             \* SlabControl.len
    cap,             \* SlabControl.cap
    phase,           \* "fresh", "open", "failed", "panicked", "fault"
    vals,            \* addresses of the live OwnedVal handles
    ptrs,            \* relative pointers written into the buffer
    drops,           \* number of destructor runs
    rootObj,         \* address of the value whose deposit succeeded, 0 if none
    relocs,          \* number of times the buffer was handed on: relocated,
                     \* or left in place for a later session
    last             \* the last operation, its arguments and its result

VARIABLES
    mem,             \* the bytes of the region a record is moved in
    recAt,           \* address of the record
    pointee,         \* address of the pointee, 0 for a null pointer
    moves,           \* number of moves so far
    movePc           \* "ready", "moved", "panicked"

VARIABLES
    cOp,             \* the checked entry point that ran
    cSrc,            \* the source value: its bytes and whether it is live
    cDst,            \* the destination: metadata, bytes, initialised or not
    cDrops,          \* number of raw destructor runs
    cPc              \* "ready", "done", "panicked", "unwound"

VARIABLES
    alive,           \* the ALIVE flag of the token type
    held,            \* number of live token values each thread owns
    tpc,             \* "running", "unwinding", "aborted", per thread
    tres,            \* result of each thread's last acquisition attempt
    exchanged,       \* number of exchanges split_unique's function has made
    derived          \* per thread, number of derived token tuples it owns

VARIABLES
    pGiven,          \* the native pointer the RelPtr was last emplaced from
    pAt,             \* address of the RelPtr
    pOff,            \* its offset field, as stored in the basis Isize
    pMeta,           \* its metadata field, as stored in the basis Usize
    pPc,             \* "empty", "live", "panicked"
    pMoves,          \* number of moves of the RelPtr so far
    pRes             \* what is_null, as_ptr and metadata last returned

VARIABLES
    vKind,           \* the element type of the vector: "u8" or "RelBox"
    vPc,             \* "absent", "live", "panicked"
    vAt,             \* offset in the buffer of the RelVec record
    vOff,            \* offset field of RelVec.ptr
    vLen,            \* RelVec.len
    vCap,            \* RelVec.cap
    vElems,          \* the elements in the slots [0, len) of the vector's buffer
    vLast            \* the last RelVec operation, its argument and its effect

VARIABLES
    hHandle,         \* per value, the handle the program holds to its memory
    hRuns,           \* per value, number of runs of its raw destructor
    hLast            \* the last operation on a Val and the value it consumed

slabVars == <<overflow_checks, base, buflen, root, len, cap, phase, vals,
              ptrs, drops, rootObj, relocs, last>>

moveVars == <<mem, recAt, pointee, moves, movePc>>

chkVars == <<cOp, cSrc, cDst, cDrops, cPc>>

tokVars == <<alive, held, tpc, tres, exchanged, derived>>

ptrVars == <<pGiven, pAt, pOff, pMeta, pPc, pMoves, pRes>>

vecVars == <<vKind, vPc, vAt, vOff, vLen, vCap, vElems, vLast>>

valVars == <<hHandle, hRuns, hLast>>

vars == <<slabVars, moveVars, chkVars, tokVars, ptrVars, vecVars, valVars>>

NoOp == [op |-> "none", via |-> "none", size |-> 0, align |-> 0, pre |-> 0,
         arg |-> 0, ret |-> "none", out |-> 0]

\* ------------------------------------------------------------------------
\* SlabControl
\* ------------------------------------------------------------------------

\* x & !(a - 1) for a power of two a.
MaskDown(x, a) == x - (x % a)

AlignUp_NoRound(n, a) == n

\* (len + align - 1) & !(align - 1)
AlignUp(n, a) == MaskDown(n + a - 1, a)

\* usize subtraction with overflow checks compiled out.
WrappingSub(a, b) == (a - b + UsizeModulus) % UsizeModulus

\* SlabControl::allocate.  With overflow checks `cap - start` panics when
\* start > cap; without them it wraps.
ControlAllocate(l, c, size, align, checks) ==
    IF align > CONTROL_ALIGN
    THEN [ret |-> "AllocError", start |-> 0, len |-> l]
    ELSE LET start == AlignUp(l, align) IN
         IF checks /\ c < start
         THEN [ret |-> "panic", start |-> 0, len |-> l]
         ELSE LET available == WrappingSub(c, start) IN
              IF available < size
              THEN [ret |-> "AllocError", start |-> 0, len |-> l]
              ELSE [ret |-> "Ok", start |-> start, len |-> start + size]

\* SlabControl::try_cast_slot_from_bytes
TryCastSlotFromBytes(n, b) ==
    ~(n < CONTROL_SIZE \/ b % CONTROL_ALIGN # 0)

ControlTryFromBytes_NoCapCheck(n, b, l, c) ==
    IF ~TryCastSlotFromBytes(n, b) THEN "SlabError"
    ELSE IF l > c THEN "SlabError"
    ELSE "Ok"

\* SlabControl::try_from_bytes: the checks made on the stored fields.
ControlTryFromBytes(n, b, l, c) ==
    IF ~TryCastSlotFromBytes(n, b) THEN "SlabError"
    ELSE IF l > c \/ c > n THEN "SlabError"
    ELSE "Ok"

\* SlabControl::shrink_to_fit
ControlShrinkToFit(l) == [cap |-> l, ret |-> CONTROL_SIZE + l]

ControlDeposit_NoRootCheck(r, target, b) == target >= b

\* SlabControl::deposit: is the value stored as the root.
ControlDeposit_InBuffer(r, target, b) ==
    r = 0 /\ target >= b /\ target < b + cap

ControlDeposit(r, target, b) == r = 0 /\ target >= b

ControlWithdraw_NoBase(r, b) == IF r # 0 THEN r ELSE 0

\* SlabControl::withdraw: the address of the root, 0 for None.
ControlWithdraw(r, b) == IF r # 0 THEN b + r ELSE 0

\* RelPtr::as_ptr_unchecked: own address plus stored offset.
Resolve(b, p) == b + p.at + p.off

\* The control block a handle operates on.  SlabAllocator and its copies
\* hold a Ref to it; RelSlabAllocator resolves its RelRef.
HandleTargets(h) ==
    IF h = "RelSlabAllocator"
    THEN {Resolve(base, p) : p \in {q \in ptrs : q.kind = "alloc"}}
    ELSE {base}

HandleControl_OwnCopy(h) ==
    IF h = "Copy" THEN [len |-> CONTROL_SIZE, cap |-> cap]
    ELSE [len |-> len, cap |-> cap]

\* The control block fields an allocation through a handle reads: every
\* handle dereferences the one control block at the start of the buffer.
HandleControl(h) == [len |-> len, cap |-> cap]

\* ------------------------------------------------------------------------
\* Operations on a slab
\* ------------------------------------------------------------------------

\* SlabAllocator::try_new_in
TryNewIn ==
    /\ UNCHANGED <<moveVars, chkVars, tokVars, ptrVars, vecVars, valVars>>
    /\ phase = "fresh"
    /\ IF TryCastSlotFromBytes(buflen, base)
       THEN /\ root' = 0
            /\ len' = CONTROL_SIZE
            /\ cap' = buflen
            /\ phase' = "open"
            /\ last' = [NoOp EXCEPT !.op = "try_new_in", !.ret = "Ok"]
       ELSE /\ phase' = "failed"
            /\ last' = [NoOp EXCEPT !.op = "try_new_in", !.ret = "SlabError"]
            /\ UNCHANGED <<root, len, cap>>
    /\ UNCHANGED <<overflow_checks, base, buflen, vals, ptrs, drops, rootObj,
                   relocs>>

\* Allocator::allocate for SlabAllocator, RawAllocator::raw_allocate for
\* RelSlabAllocator.
Allocate(h, size, align) ==
    /\ UNCHANGED <<moveVars, chkVars, tokVars, ptrVars, vecVars, valVars>>
    /\ phase = "open"
    /\ len <= buflen
    /\ base \in HandleTargets(h)
    /\ LET c == HandleControl(h)
           r == ControlAllocate(c.len, c.cap, size, align, overflow_checks)
       IN
       /\ len' = r.len
       /\ phase' = IF r.ret = "panic" THEN "panicked" ELSE phase
       /\ last' = [NoOp EXCEPT !.op = "allocate", !.via = h, !.size = size,
                               !.align = align, !.pre = len,
                               !.ret = r.ret, !.out = r.start]
    /\ UNCHANGED <<overflow_checks, base, buflen, root, cap, vals,
                   ptrs, drops, rootObj, relocs>>

ControlDeallocate_Reclaim(l, start, size) ==
    IF start + size = l THEN start ELSE l

\* The body of deallocate and raw_deallocate is empty: used_length after a
\* call that returns the range [start, start + size).
ControlDeallocate(l, start, size) == l

\* Allocator::deallocate for SlabAllocator, RawAllocator::raw_deallocate for
\* RelSlabAllocator, called with the range the last allocate returned.
Deallocate(h) ==
    /\ UNCHANGED <<moveVars, chkVars, tokVars, ptrVars, vecVars, valVars>>
    /\ phase = "open"
    /\ base \in HandleTargets(h)
    /\ last.op = "allocate"
    /\ last.ret = "Ok"
    /\ len' = ControlDeallocate(HandleControl(h).len, last.out, last.size)
    /\ last' = [NoOp EXCEPT !.op = "deallocate", !.via = h,
                            !.size = last.size, !.align = last.align,
                            !.pre = len, !.ret = "Ok", !.out = last.out]
    /\ UNCHANGED <<overflow_checks, base, buflen, root, cap, phase, vals,
                   ptrs, drops, rootObj, relocs>>

\* EmplaceIn::emplace_in: Frame::new_unsized_in followed by the emplacement.
\* A zero-sized value is not allocated: its address is its alignment.  A
\* RelBox is emplaced from an OwnedVal `src`, which it takes over.
EmplaceIn(k, src) ==
    /\ UNCHANGED <<moveVars, chkVars, tokVars, ptrVars, vecVars, valVars>>
    /\ phase = "open"
    /\ len <= buflen
    /\ Cardinality(vals) < MaxVals \/ k = "RelBox"
    /\ (k = "RelBox") => (src \in vals /\ src >= base)
    /\ (k # "RelBox") => (src = 0)
    /\ (k \in {"RelBox", "RelSlabAllocator"}) =>
          Cardinality({p \in ptrs : p.kind = "alloc"}) < MaxBoxes
    /\ IF KindSize(k) = 0
       THEN /\ vals' = vals \cup {KindAlign(k)}
            /\ last' = [NoOp EXCEPT !.op = "emplace_in", !.ret = "Ok",
                                    !.size = KindSize(k),
                                    !.align = KindAlign(k),
                                    !.out = KindAlign(k)]
            /\ UNCHANGED <<len, phase, ptrs>>
       ELSE LET r == ControlAllocate(len, cap, KindSize(k), KindAlign(k),
                                     overflow_checks)
                at == r.start
            IN  /\ len' = r.len
                /\ phase' = IF r.ret = "Ok" THEN phase ELSE "panicked"
                /\ last' = [NoOp EXCEPT !.op = "emplace_in",
                                        !.size = KindSize(k),
                                        !.align = KindAlign(k),
                                        !.arg = src,
                                        !.ret = IF r.ret = "Ok" THEN "Ok"
                                                ELSE "panic",
                                        !.out = IF r.ret = "Ok"
                                                THEN base + at ELSE 0]
                /\ IF r.ret # "Ok"
                   THEN UNCHANGED <<vals, ptrs>>
                   ELSE IF k = "RelBox"
                   THEN /\ vals' = (vals \ {src}) \cup {base + at}
                        /\ ptrs' = ptrs \cup
                              {[at |-> at, off |-> src - (base + at),
                                kind |-> "ptr"],
                               [at |-> at + REL_PTR_SIZE,
                                off |-> base - (base + at + REL_PTR_SIZE),
                                kind |-> "alloc"]}
                   ELSE IF k = "RelSlabAllocator"
                   THEN /\ vals' = vals \cup {base + at}
                        /\ ptrs' = ptrs \cup
                              {[at |-> at, off |-> base - (base + at),
                                kind |-> "alloc"]}
                   ELSE /\ vals' = vals \cup {base + at}
                        /\ UNCHANGED ptrs
    /\ UNCHANGED <<overflow_checks, base, buflen, root, cap, drops, rootObj,
                   relocs>>

\* Drop for OwnedVal: the raw destructor runs, then deallocate (a no-op).
DropVal(v) ==
    /\ UNCHANGED <<moveVars, chkVars, tokVars, ptrVars, vecVars, valVars>>
    /\ phase = "open"
    /\ v \in vals
    /\ drops < MaxDrops
    /\ vals' = vals \ {v}
    /\ drops' = drops + 1
    /\ last' = [NoOp EXCEPT !.op = "drop", !.arg = v]
    /\ UNCHANGED <<overflow_checks, base, buflen, root, len, cap, phase,
                   ptrs, rootObj, relocs>>

\* SlabAllocator::deposit
Deposit(h, v) ==
    /\ UNCHANGED <<moveVars, chkVars, tokVars, ptrVars, vecVars, valVars>>
    /\ phase = "open"
    /\ h # "RelSlabAllocator"
    /\ v \in vals
    /\ LET was_stored == ControlDeposit(root, v, base) IN
       IF was_stored
       THEN /\ root' = v - base
            /\ vals' = vals \ {v}
            /\ rootObj' = v
            /\ last' = [NoOp EXCEPT !.op = "deposit", !.arg = v,
                                    !.ret = "None"]
       ELSE /\ last' = [NoOp EXCEPT !.op = "deposit", !.arg = v,
                                    !.ret = "Some", !.out = v]
            /\ UNCHANGED <<root, vals, rootObj>>
    /\ UNCHANGED <<overflow_checks, base, buflen, len, cap, phase, ptrs,
                   drops, relocs>>

\* SlabAllocator::withdraw_unchecked
Withdraw(h) ==
    /\ UNCHANGED <<moveVars, chkVars, tokVars, ptrVars, vecVars, valVars>>
    /\ phase = "open"
    /\ h # "RelSlabAllocator"
    /\ LET result == ControlWithdraw(root, base) IN
       /\ vals' = IF result # 0 THEN vals \cup {result} ELSE vals
       /\ last' = [NoOp EXCEPT !.op = "withdraw",
                               !.ret = IF result # 0 THEN "Some" ELSE "None",
                               !.out = result]
    /\ UNCHANGED <<overflow_checks, base, buflen, root, len, cap, phase,
                   ptrs, drops, rootObj, relocs>>

\* SlabAllocator::shrink_to_fit
ShrinkToFit(h) ==
    /\ UNCHANGED <<moveVars, chkVars, tokVars, ptrVars, vecVars, valVars>>
    /\ phase = "open"
    /\ h # "RelSlabAllocator"
    /\ LET r == ControlShrinkToFit(len) IN
       /\ cap' = r.cap
       /\ last' = [NoOp EXCEPT !.op = "shrink_to_fit",
                               !.out = r.ret]
    /\ UNCHANGED <<overflow_checks, base, buflen, root, len, phase, vals,
                   ptrs, drops, rootObj, relocs>>

\* rel_box in rel_example: the byte count shrink_to_fit returned is copied
\* from the start of the buffer into a zeroed Align16::frame of that size,
\* and the copy is opened with try_from_bytes.  Reading past the end of the
\* source buffer is undefined: the process may fault, or the read may go
\* through and yield whatever bytes lie behind the buffer.
Relocate(outcome) ==
    /\ UNCHANGED <<moveVars, chkVars, tokVars, ptrVars, vecVars, valVars>>
    /\ phase = "open"
    /\ last.op = "shrink_to_fit"
    /\ relocs < MaxRelocs
    /\ LET size == last.out
           newbase == NewBase(base)
           newlen == AlignUp(size, ALIGN16)
       IN  /\ outcome \in (IF size > buflen THEN {"fault", "copied"}
                           ELSE {"copied"})
           /\ relocs' = relocs + 1
           /\ IF outcome = "fault"
              THEN /\ phase' = "fault"
                   /\ last' = [NoOp EXCEPT !.op = "relocate",
                                           !.ret = "fault", !.arg = size]
                   /\ UNCHANGED <<base, buflen, vals, ptrs, rootObj>>
              ELSE LET res == ControlTryFromBytes(newlen, newbase, len, cap)
                   IN /\ base' = newbase
                      /\ buflen' = newlen
                      /\ phase' = IF res = "Ok" THEN "open" ELSE "failed"
                      /\ vals' = {}
                      /\ ptrs' = {p \in ptrs : p.at + REL_PTR_SIZE <= size}
                      /\ rootObj' = IF rootObj = 0 THEN 0
                                    ELSE newbase + (rootObj - base)
                      /\ last' = [NoOp EXCEPT !.op = "relocate",
                                              !.ret = res, !.arg = size]
    /\ UNCHANGED <<overflow_checks, root, len, cap, drops>>

\* SlabAllocator::try_from_bytes on a buffer whose bytes are whatever the
\* caller supplies.
TryFromBytes ==
    /\ UNCHANGED <<moveVars, chkVars, tokVars, ptrVars, vecVars, valVars>>
    /\ phase = "stored"
    /\ LET res == ControlTryFromBytes(buflen, base, len, cap) IN
       /\ phase' = IF res = "Ok" THEN "open" ELSE "failed"
       /\ last' = [NoOp EXCEPT !.op = "try_from_bytes", !.ret = res]
    /\ UNCHANGED <<overflow_checks, base, buflen, root, len, cap, vals, ptrs,
                   drops, rootObj, relocs>>

\* rel_vec in rel_example: the closure that opened the allocator returns.
\* The allocator and the OwnedVals still held are dropped; the bytes of the
\* buffer stay as they are for the next session.
EndSession ==
    /\ UNCHANGED <<moveVars, chkVars, tokVars, ptrVars, vecVars, valVars>>
    /\ phase = "open"
    /\ relocs < MaxRelocs
    /\ phase' = "stored"
    /\ relocs' = relocs + 1
    /\ vals' = {}
    /\ drops' = drops + Cardinality(vals)
    /\ last' = [NoOp EXCEPT !.op = "end_session"]
    /\ UNCHANGED <<overflow_checks, base, buflen, root, len, cap, ptrs,
                   rootObj>>

\* The parts of the state a specification does not use stay as they are here.
IdleSlab ==
    /\ overflow_checks = FALSE
    /\ base = 0
    /\ buflen = 0
    /\ root = 0
    /\ len = 0
    /\ cap = 0
    /\ phase = "unused"
    /\ vals = {}
    /\ ptrs = {}
    /\ drops = 0
    /\ rootObj = 0
    /\ relocs = 0
    /\ last = NoOp

IdleMove ==
    /\ mem = <<>>
    /\ recAt = 0
    /\ pointee = 0
    /\ moves = 0
    /\ movePc = "unused"

IdleChecked ==
    /\ cOp = "none"
    /\ cSrc = [bytes |-> <<>>, state |-> "unused"]
    /\ cDst = [meta |-> 0, bytes |-> <<>>, init |-> FALSE]
    /\ cDrops = 0
    /\ cPc = "unused"

IdleToken ==
    /\ alive = FALSE
    /\ held = <<>>
    /\ tpc = <<>>
    /\ tres = <<>>
    /\ exchanged = 0
    /\ derived = <<>>

IdlePtr ==
    /\ pGiven = [some |-> FALSE, addr |-> 0, meta |-> 0]
    /\ pAt = 0
    /\ pOff = 0
    /\ pMeta = 0
    /\ pPc = "unused"
    /\ pMoves = 0
    /\ pRes = [valid |-> FALSE, null |-> FALSE]

IdleVec ==
    /\ vKind = "none"
    /\ vPc = "unused"
    /\ vAt = 0
    /\ vOff = 0
    /\ vLen = 0
    /\ vCap = 0
    /\ vElems = <<>>
    /\ vLast = <<>>

IdleVal ==
    /\ hHandle = <<>>
    /\ hRuns = <<>>
    /\ hLast = <<>>

Init ==
    /\ overflow_checks \in BOOLEAN
    /\ base \in Bases
    /\ buflen \in BufLens
    /\ root = 0
    /\ len = 0
    /\ cap = 0
    /\ phase = "fresh"
    /\ vals = {}
    /\ ptrs = {}
    /\ drops = 0
    /\ rootObj = 0
    /\ relocs = 0
    /\ last = NoOp
    /\ IdleMove /\ IdleChecked /\ IdleToken /\ IdlePtr /\ IdleVec /\ IdleVal

\* The bump allocator: SlabAllocator, its copies and a RelSlabAllocator
\* emplaced from it.
Next ==
    \/ TryNewIn
    \/ EmplaceIn("RelSlabAllocator", 0)
    \/ \E h \in Handles, size \in 0..MaxSize, align \in Aligns :
          Allocate(h, size, align)
    \/ \E h \in Handles : Deallocate(h)
    \/ \E h \in Handles : ShrinkToFit(h)

Spec == Init /\ [][Next]_vars

\* Values emplaced into the slab, the root, and relocation of the buffer.
NextRoot ==
    \/ TryNewIn
    \/ \E k \in {"Unit", "I32", "RelBox"}, src \in vals \cup {0} :
          EmplaceIn(k, src)
    \/ \E v \in vals : DropVal(v)
    \/ \E h \in Handles, v \in vals : Deposit(h, v)
    \/ \E h \in Handles : Withdraw(h)
    \/ \E h \in Handles : ShrinkToFit(h)
    \/ \E outcome \in {"fault", "copied"} : Relocate(outcome)

SpecRoot == Init /\ [][NextRoot]_vars

\* Deposit and withdraw with values inside the buffer, below it and above it.
NextDeposit ==
    \/ TryNewIn
    \/ \E k \in {"Unit", "AlignedUnit", "I32"} : EmplaceIn(k, 0)
    \/ \E h \in Handles, v \in vals : Deposit(h, v)
    \/ \E h \in Handles : Withdraw(h)

SpecDeposit == Init /\ [][NextDeposit]_vars

\* rel_vec in rel_example: a first session populates the buffer and may
\* deposit a root; a second session reopens the buffer where it is.
NextSession ==
    \/ TryNewIn
    \/ \E size \in {1, MaxSize}, align \in {1, 4} :
          Allocate("SlabAllocator", size, align)
    \/ EmplaceIn("I32", 0)
    \/ \E v \in vals : Deposit("SlabAllocator", v)
    \/ Withdraw("SlabAllocator")
    \/ EndSession
    \/ TryFromBytes

SpecSession == Init /\ [][NextSession]_vars

\* Reopening a buffer of arbitrary content.
StoredLens == {0, CONTROL_SIZE, MaxStored - 9, MaxStored - 1, MaxStored}

InitReopen ==
    /\ overflow_checks \in BOOLEAN
    /\ base \in Bases
    /\ buflen \in BufLens
    /\ root \in {0, CONTROL_SIZE}
    /\ len \in StoredLens
    /\ cap \in StoredLens
    /\ phase = "stored"
    /\ vals = {}
    /\ ptrs = {}
    /\ drops = 0
    /\ rootObj = 0
    /\ relocs = 0
    /\ last = NoOp
    /\ IdleMove /\ IdleChecked /\ IdleToken /\ IdlePtr /\ IdleVec /\ IdleVal

NextReopen == TryFromBytes

SpecReopen == InitReopen /\ [][NextReopen]_vars

\* ------------------------------------------------------------------------
\* Properties of the slab allocator
\* ------------------------------------------------------------------------

\* C1: allocate returns AllocError and leaves used_length, capacity and root
\* unchanged whenever the capacity left after rounding used_length up to the
\* requested alignment is smaller than the requested size, including when
\* the rounded-up start lies beyond capacity.
C1_ExhaustedAllocateFails ==
    [][(last'.op = "allocate"
        /\ cap - AlignUp(len, last'.align) < last'.size)
       => (/\ last'.ret = "AllocError"
           /\ len' = len
           /\ cap' = cap
           /\ root' = root)]_vars

C4_RelocationRoundTrip ==
    [][(last'.op = "relocate" /\ rootObj # 0)
       => (/\ last'.ret = "Ok"
           /\ base' # base
           /\ ControlWithdraw(root', base') - base' = rootObj - base
           /\ \A p \in ptrs :
                 /\ p \in ptrs'
                 /\ Resolve(base', p) - base' = Resolve(base, p) - base)]_vars

\* C5: shrink_to_fit sets capacity to used_length, leaves used_length and
\* root unchanged and returns the length of the live prefix of the buffer,
\* the control block plus the payload allocated so far.
C5_ShrinkToFit ==
    [][(last'.op = "shrink_to_fit")
       => (/\ cap' = len
           /\ len' = len
           /\ root' = root
           /\ last'.out = len)]_vars

\* C6: try_from_bytes returns SlabError when the stored used_length exceeds
\* the stored capacity, the stored capacity exceeds the buffer length, or the
\* buffer is too short or misaligned for the control block; it succeeds only
\* if used_length <= capacity <= buffer length; it never modifies the stored
\* root, used_length or capacity.
C6_TryFromBytes ==
    [][(last'.op = "try_from_bytes")
       => (/\ (\/ len > cap
               \/ cap > buflen
               \/ buflen < CONTROL_SIZE
               \/ base % CONTROL_ALIGN # 0)
              => (last'.ret = "SlabError" /\ phase' = "failed")
           /\ (last'.ret = "Ok") => (len <= cap /\ cap <= buflen
                                     /\ phase' = "open")
           /\ root' = root
           /\ len' = len
           /\ cap' = cap)]_vars

C6_Witness ==
    /\ last.op = "try_from_bytes"
    /\ last.ret = "SlabError"
    /\ buflen >= CONTROL_SIZE
    /\ base % CONTROL_ALIGN = 0
    /\ len <= cap
    /\ cap > buflen

\* C7: allocate fails without a state change when the requested alignment
\* exceeds the control block's; when it succeeds the range starts at
\* used_length rounded up to the alignment, used_length becomes start plus
\* size, and root and capacity are unchanged.
C7_Allocate ==
    [][(last'.op = "allocate")
       => (/\ (last'.align > CONTROL_ALIGN)
              => (/\ last'.ret = "AllocError"
                  /\ len' = len /\ cap' = cap /\ root' = root
                  /\ phase' = phase)
           /\ (last'.ret = "Ok")
              => (/\ last'.align <= CONTROL_ALIGN
                  /\ last'.out >= len
                  /\ last'.out - len < last'.align
                  /\ last'.out % last'.align = 0
                  /\ len' = last'.out + last'.size
                  /\ cap' = cap /\ root' = root))]_vars

C7_Witness ==
    /\ last.op = "allocate"
    /\ last.ret = "Ok"
    /\ last.out > last.pre
    /\ last.size > 0
    /\ len = last.out + last.size

\* C18: deallocate and raw_deallocate change neither root, used_length nor
\* capacity.  The range they are given ends at or below used_length,
\* used_length never decreases and every allocate starts at or above it, so
\* no later allocate returns a range that was deallocated.
C18_DeallocateIsNoOp ==
    [][/\ (last'.op = "deallocate")
          => (/\ root' = root /\ len' = len /\ cap' = cap /\ phase' = phase
              /\ last'.out + last'.size <= len')
       /\ len' >= len
       /\ (last'.op = "allocate" /\ last'.ret = "Ok")
          => last'.out >= len]_vars

C18_Witness ==
    /\ last.op = "deallocate"
    /\ last.via = "RelSlabAllocator"
    /\ last.size > 0
    /\ last.out + last.size = len
    /\ len = last.pre

C14_ExhaustionNeverPanics ==
    [][\A k \in Kinds : \A src \in vals \cup {0} :
         (/\ EmplaceIn(k, src)
          /\ KindSize(k) > 0
          /\ ControlAllocate(len, cap, KindSize(k), KindAlign(k),
                             overflow_checks).ret = "AllocError")
         => (last'.ret # "panic" /\ phase' = phase)]_vars

\* ------------------------------------------------------------------------
\* Moving a record that holds a relative pointer
\* ------------------------------------------------------------------------

\* Number of bytes of the region the record is moved in.
MemSize == 10

\* Most moves of the record in one behaviour.
MaxMoves == 2

\* The record is repr(C) struct { tag: u8, ptr: RelPtr<u8, R, B> } with
\* derive(Move): the tag at offset 0 and, with a 2 byte basis, the pointer at
\* offset 2; size 4, alignment 2.
NODE_SIZE == 4

NODE_ALIGN == 2

PTR_FIELD == 2

Region == (4 * CONTROL_ALIGN)..(4 * CONTROL_ALIGN + MemSize - 1)

Extent(a) == a..(a + NODE_SIZE - 1)

Slots == {a \in Region : a % NODE_ALIGN = 0 /\ Extent(a) \subseteq Region}

\* Basis::from_native_isize for a 16 bit basis: does the value fit an I16.
FitsIsize(x) == -(2 ^ (UsizeBits - 1)) <= x /\ x < 2 ^ (UsizeBits - 1)

\* RelPtr::as_mut_ptr: own address plus offset, 0 for None when the pointer
\* is null.
RelPtrAsMutPtr(at, off) == IF off = 0 THEN 0 ELSE at + off

\* RelPtr::emplace_new: the offset written for a pointer to ptr at `at`.
RelPtrEmplaceNew(ptr, at) == ptr - at

RelPtrMove_CopyOffset(from, off, to) == off

\* Move for RelPtr: the offset written to the destination.
RelPtrMove(from, off, to) ==
    LET ptr == RelPtrAsMutPtr(from, off) IN
    IF ptr # 0 THEN RelPtrEmplaceNew(ptr, to) ELSE 0

\* Move for u8: Val::read_unsized_unchecked copies the byte.
ByteMove(b) == b

\* derive(Move) on the record: each field is moved in declaration order with
\* MoveExt::move; the bytes of the source are left behind.
MoveNode(to) ==
    /\ UNCHANGED <<slabVars, chkVars, tokVars, ptrVars, vecVars, valVars>>
    /\ movePc \in {"ready", "moved"}
    /\ moves < MaxMoves
    /\ to \in Slots
    /\ Extent(to) \cap Extent(recAt) = {}
    /\ pointee \notin Extent(to)
    /\ LET off == RelPtrMove(recAt + PTR_FIELD, mem[recAt + PTR_FIELD],
                             to + PTR_FIELD)
       IN  IF FitsIsize(off)
           THEN /\ mem' = [mem EXCEPT ![to] = ByteMove(mem[recAt]),
                                      ![to + PTR_FIELD] = off]
                /\ recAt' = to
                /\ movePc' = "moved"
           ELSE /\ movePc' = "panicked"
                /\ UNCHANGED <<mem, recAt>>
    /\ moves' = moves + 1
    /\ UNCHANGED pointee

\* A record emplaced at some slot, its pointer either emplaced from a pointer
\* to a byte elsewhere in the region or emplaced with Null.
InitMove ==
    /\ IdleSlab /\ IdleChecked /\ IdleToken /\ IdlePtr /\ IdleVec /\ IdleVal
    /\ recAt \in Slots
    /\ pointee \in {0} \cup (Region \ Extent(recAt))
    /\ \E tag \in 1..2, val \in 3..4 :
          mem = [a \in Region |->
                    IF a = recAt THEN tag
                    ELSE IF a = recAt + PTR_FIELD
                    THEN (IF pointee = 0 THEN 0
                          ELSE RelPtrEmplaceNew(pointee, recAt + PTR_FIELD))
                    ELSE IF a = pointee THEN val
                    ELSE 0]
    /\ moves = 0
    /\ movePc = "ready"

NextMove == \E to \in Slots : MoveNode(to)

SpecMove == InitMove /\ [][NextMove]_vars

\* C8: moving the record from slot A to slot B with the pointee fixed at P
\* leaves the pointee's bytes unchanged and the pointer at B resolves to P:
\* the offset stored at B is P minus the pointer's address in B, not the
\* offset that was stored at A.
C8_MoveRecomputesOffset ==
    [][(pointee # 0 /\ recAt' # recAt)
       => (/\ mem'[pointee] = mem[pointee]
           /\ pointee' = pointee
           /\ mem'[recAt'] = mem[recAt]
           /\ mem'[recAt' + PTR_FIELD] = pointee - (recAt' + PTR_FIELD)
           /\ (recAt' + PTR_FIELD) + mem'[recAt' + PTR_FIELD] = pointee
           /\ mem'[recAt' + PTR_FIELD] # mem[recAt + PTR_FIELD])]_vars

C8_Witness ==
    /\ movePc = "moved"
    /\ pointee # 0
    /\ RelPtrAsMutPtr(recAt + PTR_FIELD, mem[recAt + PTR_FIELD]) = pointee
    /\ mem[pointee] \in 3..4

\* ------------------------------------------------------------------------
\* The checked entry points for unsized values
\* ------------------------------------------------------------------------

\* Longest slice used as source or destination; its length is its pointer
\* metadata.
MaxMeta == 2

ByteVals == 1..2

Slices == UNION {[1..n -> ByteVals] : n \in 0..MaxMeta}

\* The outcome of an entry point: what it returns or whether it panics, the
\* destination afterwards, the destructor count and the state of the source.
Outcome(res, dst, d, src) ==
    [res |-> res, dst |-> dst, drops |-> d, src |-> src]

\* What the unchecked implementations write: the source's bytes, one element
\* at a time, into the destination.
Filled(dst, bytes) == [meta |-> dst.meta, bytes |-> bytes, init |-> TRUE]

\* EmplaceExt::emplace_unsized
EmplaceUnsized(src, dst, d) ==
    IF Len(src.bytes) # dst.meta
    THEN Outcome("panic", dst, d, src)
    ELSE Outcome("ok", Filled(dst, src.bytes), d,
                 [src EXCEPT !.state = "consumed"])

\* MoveExt::move_unsized
MoveUnsized(src, dst, d) ==
    IF Len(src.bytes) # dst.meta
    THEN Outcome("panic", dst, d, src)
    ELSE Outcome("ok", Filled(dst, src.bytes), d,
                 [src EXCEPT !.state = "consumed"])

ReplaceUnsized_DropFirst(src, dst, d) ==
    IF Len(src.bytes) # dst.meta
    THEN Outcome("panic", [dst EXCEPT !.init = FALSE], d + 1, src)
    ELSE Outcome("ok", Filled(dst, src.bytes), d + 1,
                 [src EXCEPT !.state = "consumed"])

\* rel_mem::replace_unsized: after the assertion the old value of the
\* destination is dropped and the source is emplaced over it.
ReplaceUnsized(src, dst, d) ==
    IF Len(src.bytes) # dst.meta
    THEN Outcome("panic", dst, d, src)
    ELSE Outcome("ok", Filled(dst, src.bytes), d + 1,
                 [src EXCEPT !.state = "consumed"])

\* Val::read_unsized
ReadUnsized(src, dst, d) ==
    IF Len(src.bytes) # dst.meta
    THEN Outcome("panic", dst, d, src)
    ELSE Outcome("ok", Filled(dst, src.bytes), d,
                 [src EXCEPT !.state = "consumed"])

EntryPoint(op, src, dst, d) ==
    IF op = "emplace_unsized" THEN EmplaceUnsized(src, dst, d)
    ELSE IF op = "move_unsized" THEN MoveUnsized(src, dst, d)
    ELSE IF op = "replace_unsized" THEN ReplaceUnsized(src, dst, d)
    ELSE ReadUnsized(src, dst, d)

\* A call of one of the entry points.  replace_unsized takes an initialised
\* destination (a Mut), the others an uninitialised Slot.
Call(op) ==
    /\ UNCHANGED <<slabVars, moveVars, tokVars, ptrVars, vecVars, valVars>>
    /\ cPc = "ready"
    /\ (op = "replace_unsized") <=> cDst.init
    /\ LET r == EntryPoint(op, cSrc, cDst, cDrops) IN
       /\ cOp' = op
       /\ cSrc' = r.src
       /\ cDst' = r.dst
       /\ cDrops' = r.drops
       /\ cPc' = IF r.res = "panic" THEN "panicked" ELSE "done"

\* Unwinding after the panic drops what the panicking call owned: the Val
\* handed to move_unsized or read_unsized runs its raw destructor, the
\* emplacer handed to emplace_unsized or replace_unsized is dropped.
Unwind ==
    /\ UNCHANGED <<slabVars, moveVars, tokVars, ptrVars, vecVars, valVars>>
    /\ cPc = "panicked"
    /\ cPc' = "unwound"
    /\ cSrc' = [cSrc EXCEPT !.state = "dropped"]
    /\ cDrops' = IF cOp \in {"move_unsized", "read_unsized"}
                 THEN cDrops + 1 ELSE cDrops
    /\ UNCHANGED <<cOp, cDst>>

InitChecked ==
    /\ IdleSlab /\ IdleMove /\ IdleToken /\ IdlePtr /\ IdleVec /\ IdleVal
    /\ cOp = "none"
    /\ \E b \in Slices : cSrc = [bytes |-> b, state |-> "live"]
    /\ \E b \in Slices, i \in BOOLEAN :
          cDst = [meta |-> Len(b), bytes |-> b, init |-> i]
    /\ cDrops = 0
    /\ cPc = "ready"

NextChecked ==
    \/ Call("emplace_unsized")
    \/ Call("move_unsized")
    \/ Call("replace_unsized")
    \/ Call("read_unsized")
    \/ Unwind

SpecChecked == InitChecked /\ [][NextChecked]_vars

NumThreads == 3

\* Most token values one thread is followed through owning at once.
MaxHeld == 2

\* Most exchanges through the split function that are followed.
MaxExchanges == 2

Threads == 1..NumThreads

\* AtomicBool::compare_exchange(current, new): succeeds, storing new, exactly
\* when the flag holds current.
CompareExchange(flag, current, new) ==
    IF flag = current THEN [ok |-> TRUE, flag |-> new]
    ELSE [ok |-> FALSE, flag |-> flag]

CasAcquire_Release(flag) ==
    IF flag THEN [ok |-> FALSE, flag |-> FALSE] ELSE [ok |-> TRUE, flag |-> TRUE]

CasAcquire_Swap(flag) == [ok |-> TRUE, flag |-> TRUE]

\* The compare_exchange(false, true) of try_acquire.
CasAcquire(flag) == CompareExchange(flag, FALSE, TRUE)

CasRelease_Keep(flag) == [ok |-> TRUE, flag |-> flag]

\* The compare_exchange(true, false) of the Drop impl.
CasRelease(flag) == CompareExchange(flag, TRUE, FALSE)

\* $name::try_acquire
TryAcquire(t) ==
    /\ UNCHANGED <<slabVars, moveVars, chkVars, ptrVars, vecVars, valVars>>
    /\ tpc[t] = "running"
    /\ held[t] < MaxHeld
    /\ LET r == CasAcquire(alive) IN
       /\ alive' = r.flag
       /\ held' = [held EXCEPT ![t] = IF r.ok THEN @ + 1 ELSE @]
       /\ tres' = [tres EXCEPT ![t] = IF r.ok THEN "Ok" ELSE "Err"]
    /\ UNCHANGED <<tpc, exchanged, derived>>

\* $name::acquire: try_acquire().unwrap(); the thread unwinds when the
\* attempt fails.
Acquire(t) ==
    /\ UNCHANGED <<slabVars, moveVars, chkVars, ptrVars, vecVars, valVars>>
    /\ tpc[t] = "running"
    /\ held[t] < MaxHeld
    /\ LET r == CasAcquire(alive) IN
       /\ alive' = r.flag
       /\ held' = [held EXCEPT ![t] = IF r.ok THEN @ + 1 ELSE @]
       /\ tres' = [tres EXCEPT ![t] = IF r.ok THEN "Ok" ELSE "panic"]
       /\ tpc' = [tpc EXCEPT ![t] = IF r.ok THEN @ ELSE "unwinding"]
    /\ UNCHANGED <<exchanged, derived>>

\* Drop for $name: compare_exchange(true, false).unwrap().  A running thread
\* drops a token when it chooses to, an unwinding thread drops what it owns.
DropToken(t) ==
    /\ UNCHANGED <<slabVars, moveVars, chkVars, ptrVars, vecVars, valVars>>
    /\ tpc[t] \in {"running", "unwinding"}
    /\ held[t] > 0
    /\ LET r == CasRelease(alive) IN
       /\ alive' = r.flag
       /\ held' = [held EXCEPT ![t] = @ - 1]
       /\ tpc' = [tpc EXCEPT ![t] = IF r.ok THEN @ ELSE "aborted"]
    /\ UNCHANGED <<tres, exchanged, derived>>

\* core::mem::forget(unique): the value is consumed and its destructor is
\* not run, so the flag is left as it is.
Forget_Drop(flag) == CasRelease(flag).flag

Forget(flag) == flag

\* The function split_unique! generates (barify in the test): forgets the
\* token it is given and returns the derived tokens.
Split(t) ==
    /\ UNCHANGED <<slabVars, moveVars, chkVars, ptrVars, vecVars, valVars>>
    /\ tpc[t] = "running"
    /\ held[t] > 0
    /\ exchanged < MaxExchanges
    /\ alive' = Forget(alive)
    /\ held' = [held EXCEPT ![t] = @ - 1]
    /\ exchanged' = exchanged + 1
    /\ derived' = [derived EXCEPT ![t] = @ + 1]
    /\ UNCHANGED <<tpc, tres>>

\* Dropping the derived tokens: they have no Drop impl and hold only
\* PhantomData, so nothing else changes.
DropDerived(t) ==
    /\ UNCHANGED <<slabVars, moveVars, chkVars, ptrVars, vecVars, valVars>>
    /\ tpc[t] \in {"running", "unwinding"}
    /\ derived[t] > 0
    /\ derived' = [derived EXCEPT ![t] = @ - 1]
    /\ UNCHANGED <<alive, held, tpc, tres, exchanged>>

InitToken ==
    /\ IdleSlab /\ IdleMove /\ IdleChecked /\ IdlePtr /\ IdleVec /\ IdleVal
    /\ alive = FALSE
    /\ held = [t \in Threads |-> 0]
    /\ tpc = [t \in Threads |-> "running"]
    /\ tres = [t \in Threads |-> "none"]
    /\ exchanged = 0
    /\ derived = [t \in Threads |-> 0]

NextToken ==
    \/ \E t \in Threads : TryAcquire(t)
    \/ \E t \in Threads : Acquire(t)
    \/ \E t \in Threads : DropToken(t)
    \/ \E t \in Threads : Split(t)
    \/ \E t \in Threads : DropDerived(t)

SpecToken == InitToken /\ [][NextToken]_vars

\* SlabAllocator::try_new_in(bytes, unique) with a runtime token: when the
\* buffer is too short or misaligned the function returns the error before
\* unique is stored, and unique is dropped on return; otherwise the fields
\* are written and unique is moved into the control block.
TryNewInWith(t) ==
    /\ UNCHANGED <<moveVars, chkVars, ptrVars, vecVars, valVars>>
    /\ tpc[t] = "running"
    /\ held[t] > 0
    /\ phase = "fresh"
    /\ held' = [held EXCEPT ![t] = @ - 1]
    /\ IF TryCastSlotFromBytes(buflen, base)
       THEN /\ root' = 0
            /\ len' = CONTROL_SIZE
            /\ cap' = buflen
            /\ phase' = "open"
            /\ last' = [NoOp EXCEPT !.op = "try_new_in", !.ret = "Ok"]
            /\ UNCHANGED <<alive, tpc>>
       ELSE /\ phase' = "rejected"
            /\ last' = [NoOp EXCEPT !.op = "try_new_in", !.ret = "SlabError"]
            /\ LET r == CasRelease(alive) IN
               /\ alive' = r.flag
               /\ tpc' = [tpc EXCEPT ![t] = IF r.ok THEN @ ELSE "aborted"]
            /\ UNCHANGED <<root, len, cap>>
    /\ UNCHANGED <<overflow_checks, base, buflen, vals, ptrs, drops, rootObj,
                   relocs>>
    /\ UNCHANGED <<tres, exchanged, derived>>

\* SlabAllocator::try_from_bytes(bytes, unique) with a runtime token: the
\* same early return when the buffer is too short or misaligned; otherwise
\* forget(unique), and only then are the stored lengths checked.
TryFromBytesWith(t) ==
    /\ UNCHANGED <<moveVars, chkVars, ptrVars, vecVars, valVars>>
    /\ tpc[t] = "running"
    /\ held[t] > 0
    /\ phase = "stored"
    /\ held' = [held EXCEPT ![t] = @ - 1]
    /\ LET res == ControlTryFromBytes(buflen, base, len, cap) IN
       /\ last' = [NoOp EXCEPT !.op = "try_from_bytes", !.ret = res]
       /\ IF TryCastSlotFromBytes(buflen, base)
          THEN /\ alive' = Forget(alive)
               /\ phase' = IF res = "Ok" THEN "open" ELSE "failed"
               /\ UNCHANGED tpc
          ELSE /\ phase' = "rejected"
               /\ LET r == CasRelease(alive) IN
                  /\ alive' = r.flag
                  /\ tpc' = [tpc EXCEPT ![t] = IF r.ok THEN @
                                               ELSE "aborted"]
    /\ UNCHANGED <<overflow_checks, base, buflen, root, len, cap, vals, ptrs,
                   drops, rootObj, relocs>>
    /\ UNCHANGED <<tres, exchanged, derived>>

\* The allocator, or the error, and the buffer go away.  The buffer is
\* borrowed bytes: nothing stored in it is dropped.
BufferGone ==
    /\ UNCHANGED <<moveVars, chkVars, tokVars, ptrVars, vecVars, valVars>>
    /\ phase \in {"open", "failed"}
    /\ phase' = "gone"
    /\ last' = [NoOp EXCEPT !.op = "end_session"]
    /\ UNCHANGED <<overflow_checks, base, buflen, root, len, cap, vals, ptrs,
                   drops, rootObj, relocs>>

\* A buffer, fresh or with stored fields, that no allocator was opened on
\* yet, and a token type nobody has acquired.
InitSlabToken ==
    /\ IdleMove /\ IdleChecked /\ IdlePtr /\ IdleVec /\ IdleVal
    /\ overflow_checks = FALSE
    /\ base \in Bases
    /\ buflen \in BufLens
    /\ phase \in {"fresh", "stored"}
    /\ root = 0
    /\ len \in (IF phase = "fresh" THEN {0} ELSE StoredLens)
    /\ cap \in (IF phase = "fresh" THEN {0} ELSE StoredLens)
    /\ vals = {}
    /\ ptrs = {}
    /\ drops = 0
    /\ rootObj = 0
    /\ relocs = 0
    /\ last = NoOp
    /\ alive = FALSE
    /\ held = [t \in Threads |-> 0]
    /\ tpc = [t \in Threads |-> "running"]
    /\ tres = [t \in Threads |-> "none"]
    /\ exchanged = 0
    /\ derived = [t \in Threads |-> 0]

NextSlabToken ==
    \/ \E t \in Threads : TryAcquire(t)
    \/ \E t \in Threads : DropToken(t)
    \/ \E t \in Threads : TryNewInWith(t)
    \/ \E t \in Threads : TryFromBytesWith(t)
    \/ BufferGone

SpecSlabToken == InitSlabToken /\ [][NextSlabToken]_vars

RECURSIVE SumHeld(_)
SumHeld(n) == IF n = 0 THEN 0 ELSE held[n] + SumHeld(n - 1)

\* C10: at most one live token value of the type exists at any time, under
\* every interleaving of try_acquire, acquire and drop by any number of
\* threads; two attempts on a free token never both succeed.
C10_AtMostOneToken ==
    /\ SumHeld(NumThreads) <= 1
    /\ (SumHeld(NumThreads) = 1) => alive

C10_Witness ==
    \E t, u \in Threads :
        /\ t # u
        /\ held[t] = 1
        /\ tres[t] = "Ok"
        /\ tres[u] = "Err"
        /\ alive

\* C11: while the token is held, try_acquire returns Err and acquire panics,
\* each in its one step; the flag stays held and no thread's tokens change.
C11_HeldAttemptFails ==
    [][\A t \in Threads :
         /\ (alive /\ TryAcquire(t)) =>
                /\ tres'[t] = "Err"
                /\ tpc'[t] = "running"
                /\ alive'
                /\ held' = held
         /\ (alive /\ Acquire(t)) =>
                /\ tres'[t] = "panic"
                /\ tpc'[t] = "unwinding"
                /\ alive'
                /\ held' = held]_vars

C11_Witness ==
    \E t, u, w \in Threads :
        /\ held[t] = 1
        /\ tres[u] = "Err"
        /\ tres[w] = "panic"
        /\ held[u] = 0
        /\ held[w] = 0
        /\ alive

\* C12: dropping the holder flips the flag back to free without aborting,
\* and a try_acquire on the free flag succeeds, after every release.
C12_ReleaseThenAcquire ==
    [][\A t \in Threads :
         /\ DropToken(t) => (~alive' /\ tpc'[t] = tpc[t])
         /\ (~alive /\ TryAcquire(t)) =>
                /\ tres'[t] = "Ok"
                /\ alive'
                /\ held'[t] = held[t] + 1]_vars

C12_Witness ==
    \E t, u \in Threads :
        /\ t # u
        /\ tres[u] = "Ok"
        /\ held[u] = 0
        /\ derived[u] = 0
        /\ exchanged = 0
        /\ tres[t] = "Ok"
        /\ held[t] = 1

\* C13: once the token has been exchanged through the split function, the
\* flag stays held and no token value exists, so try_acquire fails in every
\* later state, also after the derived tokens are dropped; the exchange
\* happens at most once.
C13_ExchangedForever ==
    exchanged > 0 =>
        /\ ~CasAcquire(alive).ok
        /\ SumHeld(NumThreads) = 0
        /\ exchanged = 1

C13_Witness ==
    /\ exchanged = 1
    /\ \A t \in Threads : derived[t] = 0
    /\ \E t \in Threads : tres[t] = "Err"
    /\ alive

\* ------------------------------------------------------------------------
\* A relative pointer on a target whose pointers are wider than the basis
\* ------------------------------------------------------------------------

\* Most moves of the relative pointer in one behaviour.
MaxPtrMoves == 2

\* Largest value of the basis Isize (I16).
ISIZE_MAX == 2 ^ (UsizeBits - 1) - 1

\* Address the region of the relative pointer starts at.
PtrRegionBase == 4096

\* Distances from the start of the region of the addresses used: next to
\* each other, half the basis range apart and the whole basis range apart.
PtrDistances == {0, 1, 2, 4, ISIZE_MAX - 1, ISIZE_MAX + 1, ISIZE_MAX + 2,
                 ISIZE_MAX + 3, ISIZE_MAX + 5, 2 * ISIZE_MAX + 6}

\* Addresses a pointee may have (a [u8] may start at any byte).
PtrTargets == {PtrRegionBase + d : d \in PtrDistances}

\* Addresses a RelPtr may be emplaced at: the offset field is 2-aligned.
PtrSlots == {a \in PtrTargets : a % REL_PTR_SIZE = 0}

\* Slice lengths carried as pointer metadata.
PtrMetas == {0, 1, UsizeModulus - 1, UsizeModulus}

\* What a query returns for a null pointer.
NoPtr == [some |-> FALSE, addr |-> 0, meta |-> 0]

FromNativeIsize_Truncate(x) ==
    [ok |-> TRUE, bits |-> (x + 2 * UsizeModulus) % UsizeModulus]

\* Basis::from_native_isize where the basis is narrower than isize:
\* value.try_into() to an i16, stored as its two's complement bits.
FromNativeIsize(x) ==
    IF FitsIsize(x)
    THEN [ok |-> TRUE, bits |-> (x + UsizeModulus) % UsizeModulus]
    ELSE [ok |-> FALSE, bits |-> 0]

ToNativeIsize_ZeroExtend(bits) == bits

\* Basis::to_native_isize: value.to_ne() as isize, a sign extension.
ToNativeIsize(bits) ==
    IF bits > ISIZE_MAX THEN bits - UsizeModulus ELSE bits

\* Basis::from_native_usize where the basis is narrower than usize:
\* value.try_into() to a u16.
FromNativeUsize(x) ==
    IF x < UsizeModulus THEN [ok |-> TRUE, bits |-> x]
    ELSE [ok |-> FALSE, bits |-> 0]

\* Basis::to_native_usize: value.to_ne() as usize.
ToNativeUsize(bits) == bits

RelPtrIsNull_Never(off) == FALSE

\* RelPtr::is_null: self.offset() == 0
RelPtrIsNull(off) == ToNativeIsize(off) = 0

\* RelPtr::as_ptr_unchecked: base plus offset, with the stored metadata.
RelPtrAsPtrUnchecked(at, off, meta) ==
    [some |-> TRUE, addr |-> at + ToNativeIsize(off),
     meta |-> ToNativeUsize(meta)]

\* RelPtr::as_ptr / as_mut_ptr
RelPtrAsPtr(at, off, meta) ==
    IF RelPtrIsNull(off) THEN NoPtr ELSE RelPtrAsPtrUnchecked(at, off, meta)

\* RelPtr::metadata
RelPtrMetadata(off, meta) ==
    IF RelPtrIsNull(off) THEN NoPtr
    ELSE [some |-> TRUE, addr |-> 0, meta |-> ToNativeUsize(meta)]

\* RelPtr::emplace_new: both conversions are unwrapped before either field
\* is written.
EmplaceNew(t, m, s) ==
    LET offset == FromNativeIsize(t - s)
        metadata == FromNativeUsize(m)
    IN  IF offset.ok /\ metadata.ok
        THEN [ret |-> "Ok", off |-> offset.bits, meta |-> metadata.bits]
        ELSE [ret |-> "panic", off |-> 0, meta |-> 0]

\* RelPtr::emplace_null: offset 0 and zeroed metadata.
EmplaceNullFields == [ret |-> "Ok", off |-> FromNativeIsize(0).bits, meta |-> 0]

\* No query has been made of the pointer as it is now.
NoRes == [valid |-> FALSE, null |-> FALSE, ptr |-> NoPtr, meta |-> NoPtr]

\* Emplace<RelPtr> for In<*mut T, R>: a pointer to a [u8] of length m at t
\* is emplaced into the slot at s.  A failed conversion unwinds and leaves
\* the slot as it was.
EmplacePtr(s, t, m) ==
    /\ UNCHANGED <<slabVars, moveVars, chkVars, tokVars, vecVars, valVars>>
    /\ pPc = "empty"
    /\ LET r == EmplaceNew(t, m, s) IN
       /\ pPc' = IF r.ret = "Ok" THEN "live" ELSE "panicked"
       /\ pOff' = IF r.ret = "Ok" THEN r.off ELSE pOff
       /\ pMeta' = IF r.ret = "Ok" THEN r.meta ELSE pMeta
    /\ pGiven' = [some |-> TRUE, addr |-> t, meta |-> m]
    /\ pAt' = s
    /\ pRes' = NoRes
    /\ UNCHANGED pMoves

\* Emplace<RelPtr> for Null
EmplaceNull(s) ==
    /\ UNCHANGED <<slabVars, moveVars, chkVars, tokVars, vecVars, valVars>>
    /\ pPc = "empty"
    /\ pPc' = "live"
    /\ pOff' = EmplaceNullFields.off
    /\ pMeta' = EmplaceNullFields.meta
    /\ pGiven' = NoPtr
    /\ pAt' = s
    /\ pRes' = NoRes
    /\ UNCHANGED pMoves

\* The read-only queries is_null, as_ptr (as_mut_ptr) and metadata.
QueryPtr ==
    /\ UNCHANGED <<slabVars, moveVars, chkVars, tokVars, vecVars, valVars>>
    /\ pPc = "live"
    /\ pRes' = [valid |-> TRUE,
                null |-> RelPtrIsNull(pOff),
                ptr |-> RelPtrAsPtr(pAt, pOff, pMeta),
                meta |-> RelPtrMetadata(pOff, pMeta)]
    /\ UNCHANGED <<pGiven, pAt, pOff, pMeta, pPc, pMoves>>

\* Move for RelPtr into a slot that overlaps neither the source nor the
\* pointee: the pointer as_mut_ptr returns is emplaced anew, and Null is
\* emplaced when it returns None.
MovePtr(to) ==
    /\ UNCHANGED <<slabVars, moveVars, chkVars, tokVars, vecVars, valVars>>
    /\ pPc = "live"
    /\ pMoves < MaxPtrMoves
    /\ to >= pAt + 2 * REL_PTR_SIZE \/ pAt >= to + 2 * REL_PTR_SIZE
    /\ LET ptr == RelPtrAsPtr(pAt, pOff, pMeta)
           r == IF ptr.some THEN EmplaceNew(ptr.addr, ptr.meta, to)
                ELSE EmplaceNullFields
       IN  /\ ptr.some /\ ptr.meta > 0 =>
                 \/ to >= ptr.addr + ptr.meta
                 \/ ptr.addr >= to + 2 * REL_PTR_SIZE
           /\ pPc' = IF r.ret = "Ok" THEN "live" ELSE "panicked"
           /\ pOff' = IF r.ret = "Ok" THEN r.off ELSE pOff
           /\ pMeta' = IF r.ret = "Ok" THEN r.meta ELSE pMeta
           /\ pGiven' = ptr
    /\ pAt' = to
    /\ pMoves' = pMoves + 1
    /\ pRes' = NoRes

InitPtr ==
    /\ IdleSlab /\ IdleMove /\ IdleChecked /\ IdleToken /\ IdleVec /\ IdleVal
    /\ pGiven = NoPtr
    /\ pAt = 0
    /\ pOff = 0
    /\ pMeta = 0
    /\ pPc = "empty"
    /\ pMoves = 0
    /\ pRes = NoRes

NextPtr ==
    \/ \E s \in PtrSlots, t \in PtrTargets, m \in PtrMetas : EmplacePtr(s, t, m)
    \/ \E s \in PtrSlots : EmplaceNull(s)
    \/ QueryPtr
    \/ \E to \in PtrSlots : MovePtr(to)

SpecPtr == InitPtr /\ [][NextPtr]_vars

\* The pointer was emplaced from a native pointer and is live.
PointsSomewhere == pPc = "live" /\ pGiven.some

\* The stored offset is target minus own address, and resolution gives back
\* the target and the metadata the pointer was emplaced from.
ResolvesToGiven ==
    /\ ToNativeIsize(pOff) = pGiven.addr - pAt
    /\ RelPtrAsPtr(pAt, pOff, pMeta) =
          [some |-> TRUE, addr |-> pGiven.addr, meta |-> pGiven.meta]
    /\ pRes.valid => pRes.ptr = [some |-> TRUE, addr |-> pGiven.addr,
                                 meta |-> pGiven.meta]

\* C15 as stated: for every slot s and target t whose difference fits the
\* basis, the pointer emplaced at s stores t - s and resolves to Some(t)
\* with the original metadata.
C15_ResolvesForEveryTarget == PointsSomewhere => ResolvesToGiven

\* C15: for every slot s and every target t other than s itself whose
\* difference fits the basis, the pointer emplaced at s stores t - s and
\* resolves to Some(t) with the original metadata; a pointer whose target
\* is its own address stores offset 0 and resolves to None.
C15_ResolvesToTarget ==
    PointsSomewhere =>
        IF pGiven.addr # pAt THEN ResolvesToGiven
        ELSE /\ pOff = 0
             /\ RelPtrAsPtr(pAt, pOff, pMeta) = NoPtr

C15_Witness ==
    /\ PointsSomewhere
    /\ pGiven.addr < pAt
    /\ pGiven.meta > 0
    /\ pRes.valid
    /\ pRes.ptr.some
    /\ pRes.ptr.addr = pGiven.addr
    /\ pMoves = 0

\* C16: an emplacement whose target minus self does not fit the basis Isize,
\* or whose slice length does not fit the basis Usize, panics; whenever a
\* pointer is stored its offset and length are exactly the native ones.
C16_OverflowPanics ==
    (pPc \in {"live", "panicked"} /\ pGiven.some) =>
        /\ (pPc = "panicked") <=>
              ~(FitsIsize(pGiven.addr - pAt) /\ pGiven.meta < UsizeModulus)
        /\ (pPc = "live") =>
              /\ ToNativeIsize(pOff) = pGiven.addr - pAt
              /\ ToNativeUsize(pMeta) = pGiven.meta

C16_Witness ==
    /\ pPc = "panicked"
    /\ pGiven.some
    /\ ~FitsIsize(pGiven.addr - pAt)
    /\ pGiven.meta < UsizeModulus
    /\ pMoves = 0

\* C17: the pointer is null exactly when its stored offset is 0: Null
\* stores offset 0, is_null, as_ptr and metadata report null iff the offset
\* is 0, and a null pointer is still null (offset 0) after any move.
C17_NullIffOffsetZero ==
    (pPc = "live") =>
        /\ RelPtrIsNull(pOff) <=> (pOff = 0)
        /\ RelPtrAsPtr(pAt, pOff, pMeta).some <=> (pOff # 0)
        /\ RelPtrMetadata(pOff, pMeta).some <=> (pOff # 0)
        /\ pRes.valid =>
              /\ pRes.null <=> (pOff = 0)
              /\ pRes.ptr.some <=> (pOff # 0)
              /\ pRes.meta.some <=> (pOff # 0)
        /\ ~pGiven.some => pOff = 0

C17_Witness ==
    /\ pPc = "live"
    /\ ~pGiven.some
    /\ pMoves > 0
    /\ pRes.valid
    /\ pRes.null
    /\ ~pRes.ptr.some

\* ------------------------------------------------------------------------
\* RelVec<T, RelSlabAllocator> in a slab, for T = u8 and
\* T = RelBox<I32, RelSlabAllocator>
\* ------------------------------------------------------------------------

\* Longest backing buffer of the slab the vector lives in.
MaxVecBuf == 32

\* Largest capacity a vector is emplaced with.
MaxInitCap == 2

\* Largest small argument of reserve.
MaxAdditional == 3

\* Largest number of items an iterator handed to extend yields.
MaxItems == 2

\* size_of and align_of RelVec<u8, RelSlabAllocator> with a 2 byte basis:
\* ptr, len, cap and alloc, 2 bytes each.
VEC_SIZE == 4 * REL_PTR_SIZE

VEC_ALIGN == REL_PTR_SIZE

\* size_of and align_of the element type u8.
ELEM_SIZE == 1

ELEM_ALIGN == 1

\* size_of and align_of the element type of the vector.
ElemSize == IF vKind = "RelBox" THEN KindSize("RelBox") ELSE ELEM_SIZE

ElemAlign == IF vKind = "RelBox" THEN KindAlign("RelBox") ELSE ELEM_ALIGN

\* isize::MAX, the largest size a Layout may have.
LAYOUT_MAX == 2 ^ (UsizeBits - 1) - 1

VecBufLens == {MaxVecBuf - 14, MaxVecBuf - 8, MaxVecBuf}

ElemVals == {1, 2}

\* What the iterators handed to extend yield.
ItemSeqs == UNION {[1..n -> ElemVals] : n \in 0..MaxItems}

\* Arguments of reserve: small ones and the largest usize.
Additionals == (0..MaxAdditional) \cup {UsizeModulus - 1}

\* The last vector operation: its argument, the number of allocator calls
\* it made, how often the raw destructor ran on each element it removed,
\* and how it ended.
NoVecOp ==
    [op |-> "none", arg |-> 0, calls |-> 0, drops |-> <<>>, ret |-> "none"]

NextPowerOfTwo_Below(n) ==
    LET powers == {2 ^ k : k \in 0..(UsizeBits - 1)}
        below == {q \in powers : q <= n}
    IN  IF below = {} THEN 1
        ELSE CHOOSE q \in below : \A o \in below : q >= o

\* usize::checked_next_power_of_two: 0 stands for None.
NextPowerOfTwo(n) ==
    LET powers == {2 ^ k : k \in 0..(UsizeBits - 1)}
        above == {q \in powers : q >= n}
    IN  IF above = {} THEN 0
        ELSE CHOOSE q \in above : \A o \in above : q <= o

\* Layout::array::<T>(n): is the layout representable.
LayoutArrayOk(n) == n * ElemSize <= LAYOUT_MAX

\* this.len() + additional in usize: an overflow panics where overflow
\* checks are compiled in and wraps where they are not.
VecMinCap(l, additional, checks) ==
    IF l + additional >= UsizeModulus
    THEN [ok |-> ~checks, val |-> (l + additional) % UsizeModulus]
    ELSE [ok |-> TRUE, val |-> l + additional]

\* The capacity reserve grows to.
VecNewCap(min_cap) == NextPowerOfTwo(min_cap)

\* Emplace of an element into the slot at address slot.  A u8 is written as
\* it is.  An OwnedVal at address value becomes a RelBox: ptr is emplaced
\* from the address of the boxed value and alloc, a RelSlabAllocator, from
\* the address of the control block.
ElemEmplace(value, slot) ==
    IF vKind = "RelBox"
    THEN [ptr |-> RelPtrEmplaceNew(value, slot),
          alloc |-> RelPtrEmplaceNew(base, slot + REL_PTR_SIZE)]
    ELSE value

\* T::move of the element at address from into the slot at address to:
\* derive(Move) on RelBox moves ptr, then alloc, each as a RelPtr.
ElemMove(elem, from, to) ==
    IF vKind = "RelBox"
    THEN [ptr |-> RelPtrMove(from, elem.ptr, to),
          alloc |-> RelPtrMove(from + REL_PTR_SIZE, elem.alloc,
                               to + REL_PTR_SIZE)]
    ELSE ByteMove(elem)

\* RelVec::reserve on a vector at `at` with fields off, l, c and elements
\* elems, in a slab with used length sl and capacity sc.  raw_grow_in_place
\* is the default one and fails, so growing allocates a new buffer, moves
\* the elements into it in index order, sets the pointer and deallocates
\* the old buffer (a no-op).
VecReserve(at, off, l, c, elems, sl, sc, additional, checks) ==
    LET same == [ret |-> "Ok", off |-> off, cap |-> c, elems |-> elems,
                 len |-> sl, calls |-> 0]
        panic == [same EXCEPT !.ret = "panic"]
        min_cap == VecMinCap(l, additional, checks)
    IN  IF ~min_cap.ok THEN panic
        ELSE IF ~(min_cap.val > c) THEN same
        ELSE LET new_cap == VecNewCap(min_cap.val) IN
             IF new_cap = 0 \/ ~LayoutArrayOk(new_cap)
             THEN panic
             ELSE LET r == ControlAllocate(sl, sc, new_cap * ElemSize,
                                           ElemAlign, checks)
                  IN  IF r.ret # "Ok"
                      THEN [panic EXCEPT !.calls = 2]
                      ELSE [ret |-> "Ok",
                            off |-> RelPtrEmplaceNew(r.start, at),
                            cap |-> new_cap,
                            elems |-> [i \in 1..l |->
                                ElemMove(elems[i],
                                    base + at + off + (i - 1) * ElemSize,
                                    base + r.start + (i - 1) * ElemSize)],
                            len |-> r.len,
                            calls |-> 3]

\* emplace_in of vec::WithCapacity(alloc, c): the frame for the RelVec is
\* allocated, then the buffer; both results are unwrapped.
EmplaceVec(c) ==
    /\ UNCHANGED <<moveVars, chkVars, tokVars, ptrVars, valVars>>
    /\ phase = "open"
    /\ vPc = "absent"
    /\ LET frame == ControlAllocate(len, cap, VEC_SIZE, VEC_ALIGN,
                                    overflow_checks)
           buf == ControlAllocate(frame.len, cap, c * ElemSize, ElemAlign,
                                  overflow_checks)
       IN  IF frame.ret = "Ok" /\ LayoutArrayOk(c) /\ buf.ret = "Ok"
           THEN /\ vPc' = "live"
                /\ vAt' = frame.start
                /\ vOff' = RelPtrEmplaceNew(buf.start, frame.start)
                /\ vLen' = 0
                /\ vCap' = c
                /\ vElems' = <<>>
                /\ len' = buf.len
                /\ vLast' = [NoVecOp EXCEPT !.op = "with_capacity",
                                            !.arg = c, !.calls = 2,
                                            !.ret = "Ok"]
                /\ UNCHANGED phase
           ELSE /\ vPc' = "panicked"
                /\ phase' = "panicked"
                /\ len' = frame.len
                /\ vLast' = [NoVecOp EXCEPT !.op = "with_capacity",
                                            !.arg = c, !.ret = "panic"]
                /\ UNCHANGED <<vAt, vOff, vLen, vCap, vElems>>
    /\ UNCHANGED <<overflow_checks, base, buflen, root, cap, vals, ptrs,
                   drops, rootObj, relocs, last, vKind>>

\* RelVec::reserve
Reserve(additional) ==
    /\ UNCHANGED <<moveVars, chkVars, tokVars, ptrVars, valVars>>
    /\ phase = "open"
    /\ vPc = "live"
    /\ LET r == VecReserve(vAt, vOff, vLen, vCap, vElems, len, cap,
                           additional, overflow_checks)
       IN  /\ vOff' = r.off
           /\ vCap' = r.cap
           /\ vElems' = r.elems
           /\ len' = r.len
           /\ vPc' = IF r.ret = "Ok" THEN "live" ELSE "panicked"
           /\ phase' = IF r.ret = "Ok" THEN phase ELSE "panicked"
           /\ vLast' = [NoVecOp EXCEPT !.op = "reserve", !.arg = additional,
                                       !.calls = r.calls, !.ret = r.ret]
    /\ UNCHANGED <<vAt, vLen, vKind>>
    /\ UNCHANGED <<overflow_checks, base, buflen, root, cap, vals, ptrs,
                   drops, rootObj, relocs, last>>

\* RelVec::push on a vector at `at` in the state st (fields off, cap, elems,
\* vlen of the vector and len of the slab): reserve(1), then the value is
\* emplaced into the slot at len and len is set to len + 1.  calls adds up
\* the allocator calls.
VecPush(at, st, value, sc, checks) ==
    LET r == VecReserve(at, st.off, st.vlen, st.cap, st.elems, st.len, sc,
                        1, checks)
        slot == base + at + r.off + st.vlen * ElemSize
    IN  [ret |-> r.ret,
         off |-> r.off,
         cap |-> r.cap,
         elems |-> IF r.ret = "Ok"
                   THEN Append(r.elems, ElemEmplace(value, slot))
                   ELSE r.elems,
         len |-> r.len,
         calls |-> st.calls + r.calls,
         vlen |-> IF r.ret = "Ok" THEN st.vlen + 1 ELSE st.vlen]

\* The state of the vector as the operators above take it.
VecState ==
    [ret |-> "Ok", off |-> vOff, cap |-> vCap, elems |-> vElems, len |-> len,
     calls |-> 0, vlen |-> vLen]

\* RelVec::push.  A pushed OwnedVal is consumed.
Push(value) ==
    /\ UNCHANGED <<moveVars, chkVars, tokVars, ptrVars, valVars>>
    /\ phase = "open"
    /\ vPc = "live"
    /\ (vKind = "RelBox") => (value \in vals /\ value >= base)
    /\ (vKind # "RelBox") => (value \in ElemVals)
    /\ LET r == VecPush(vAt, VecState, value, cap, overflow_checks)
       IN  /\ vOff' = r.off
           /\ vCap' = r.cap
           /\ len' = r.len
           /\ vElems' = r.elems
           /\ vals' = IF r.ret = "Ok" THEN vals \ {value} ELSE vals
           /\ vLen' = r.vlen
           /\ vPc' = IF r.ret = "Ok" THEN "live" ELSE "panicked"
           /\ phase' = IF r.ret = "Ok" THEN phase ELSE "panicked"
           /\ vLast' = [NoVecOp EXCEPT !.op = "push", !.arg = value,
                                       !.calls = r.calls, !.ret = r.ret]
    /\ UNCHANGED <<vAt, vKind>>
    /\ UNCHANGED <<overflow_checks, base, buflen, root, cap, ptrs, drops,
                   rootObj, relocs, last>>

\* The last loop of extend: every value the iterator still yields is
\* pushed; a panic ends it.
RECURSIVE VecPushAll(_, _, _, _, _)
VecPushAll(at, st, values, sc, checks) ==
    IF values = <<>> \/ st.ret # "Ok" THEN st
    ELSE VecPushAll(at, VecPush(at, st, Head(values), sc, checks),
                    Tail(values), sc, checks)

VecExtendFill_ToHint(l, c, hint, n) ==
    IF hint < n THEN hint ELSE n

\* The first loop of extend: how many of the n items of the iterator are
\* emplaced while new_len, starting at l, is below the capacity c.
VecExtendFill(l, c, hint, n) ==
    IF c > l THEN (IF c - l < n THEN c - l ELSE n) ELSE 0

\* RelVec::extend with an iterator that yields items and whose size_hint
\* has the lower bound hint: reserve(hint); items are emplaced into the
\* slots from len on while there is capacity and set_len records them; the
\* remaining items are pushed.
Extend(items, hint) ==
    /\ UNCHANGED <<moveVars, chkVars, tokVars, ptrVars, valVars>>
    /\ phase = "open"
    /\ vPc = "live"
    /\ vKind = "u8"
    /\ LET r == VecReserve(vAt, vOff, vLen, vCap, vElems, len, cap, hint,
                           overflow_checks)
           fill == VecExtendFill(vLen, r.cap, hint, Len(items))
           filled == [ret |-> r.ret, off |-> r.off, cap |-> r.cap,
                      elems |-> r.elems \o [j \in 1..fill |->
                          ElemEmplace(items[j],
                              base + vAt + r.off
                                   + (vLen + j - 1) * ElemSize)],
                      len |-> r.len, calls |-> r.calls,
                      vlen |-> vLen + fill]
           result == IF r.ret # "Ok"
                     THEN [filled EXCEPT !.elems = r.elems, !.vlen = vLen]
                     ELSE VecPushAll(vAt, filled,
                                     SubSeq(items, fill + 1, Len(items)),
                                     cap, overflow_checks)
       IN  \E st \in {result} :
           /\ vOff' = st.off
           /\ vCap' = st.cap
           /\ len' = st.len
           /\ vElems' = st.elems
           /\ vLen' = st.vlen
           /\ vPc' = IF st.ret = "Ok" THEN "live" ELSE "panicked"
           /\ phase' = IF st.ret = "Ok" THEN phase ELSE "panicked"
           /\ vLast' = [NoVecOp EXCEPT !.op = "extend",
                                       !.arg = [items |-> items,
                                                hint |-> hint],
                                       !.calls = st.calls, !.ret = st.ret]
    /\ UNCHANGED <<vAt, vKind>>
    /\ UNCHANGED <<overflow_checks, base, buflen, root, cap, vals, ptrs,
                   drops, rootObj, relocs, last>>

VecClearDrops_None(l) == [i \in 1..l |-> 0]

\* The loop of RelVec::clear: for each index below len in turn, take(i)
\* hands out the element as a Val and drop(val) runs its raw destructor.
\* The result counts the destructor runs per element.
VecClearDrops(l) == [i \in 1..l |-> 1]

\* RelVec::clear: the loop, then set_len(0).  Capacity, the buffer pointer
\* and the slab are not written; dropping a u8 does nothing else, dropping
\* a RelBox hands the boxed value to deallocate, which is a no-op.
Clear ==
    /\ UNCHANGED <<moveVars, chkVars, tokVars, ptrVars, valVars>>
    /\ phase = "open"
    /\ vPc = "live"
    /\ vLen' = 0
    /\ vElems' = <<>>
    /\ vLast' = [NoVecOp EXCEPT !.op = "clear", !.arg = vLen,
                                !.calls = IF vKind = "RelBox" THEN vLen
                                          ELSE 0,
                                !.drops = VecClearDrops(vLen),
                                !.ret = "Ok"]
    /\ UNCHANGED <<vKind, vPc, vAt, vOff, vCap>>
    /\ UNCHANGED slabVars

\* A slab just opened with try_new_in on an aligned buffer of one of the
\* given lengths, and no vector of the given element type yet.
InitVecIn(kind, lens) ==
    /\ overflow_checks \in BOOLEAN
    /\ base = 8 * CONTROL_ALIGN
    /\ buflen \in lens
    /\ root = 0
    /\ len = CONTROL_SIZE
    /\ cap = buflen
    /\ phase = "open"
    /\ vals = {}
    /\ ptrs = {}
    /\ drops = 0
    /\ rootObj = 0
    /\ relocs = 0
    /\ last = [NoOp EXCEPT !.op = "try_new_in", !.ret = "Ok"]
    /\ IdleMove /\ IdleChecked /\ IdleToken /\ IdlePtr /\ IdleVal
    /\ vKind = kind
    /\ vPc = "absent"
    /\ vAt = 0
    /\ vOff = 0
    /\ vLen = 0
    /\ vCap = 0
    /\ vElems = <<>>
    /\ vLast = NoVecOp

InitVec == InitVecIn("u8", VecBufLens)

NextVec ==
    \/ \E c \in 0..MaxInitCap : EmplaceVec(c)
    \/ \E additional \in Additionals : Reserve(additional)
    \/ \E value \in ElemVals : Push(value)
    \/ Clear

SpecVec == InitVec /\ [][NextVec]_vars

\* Backing buffers with room for a vector of up to four bytes.
ExtendBufLens == {MaxVecBuf - 12, MaxVecBuf - 8}

InitExtend == InitVecIn("u8", ExtendBufLens)

\* A vector that is filled by extend alone.
NextExtend ==
    \/ \E c \in 0..MaxInitCap : EmplaceVec(c)
    \/ \E items \in ItemSeqs, hint \in Additionals : Extend(items, hint)

SpecExtend == InitExtend /\ [][NextExtend]_vars

\* Every operation of the vector, on elements that are all alike.
NextVecOps ==
    \/ \E c \in 0..MaxInitCap : EmplaceVec(c)
    \/ \E additional \in Additionals : Reserve(additional)
    \/ Push(1)
    \/ \E items \in {s \in ItemSeqs : \A i \in DOMAIN s : s[i] = 1},
          hint \in Additionals : Extend(items, hint)
    \/ Clear

SpecVecOps == InitVec /\ [][NextVecOps]_vars

\* Backing buffers long enough for a vector of boxes to grow twice.
VecBoxBufLens == {16 * (MaxVecBuf \div 8) - 16, 16 * (MaxVecBuf \div 8)}

InitVecBox == InitVecIn("RelBox", VecBoxBufLens)

\* rel_vec_rel_box: integers are emplaced in the slab and the OwnedVals are
\* pushed onto a RelVec of RelBox.
NextVecBox ==
    \/ \E c \in 0..MaxInitCap : EmplaceVec(c)
    \/ EmplaceIn("I32", 0)
    \/ \E value \in vals : Push(value)
    \/ \E additional \in 1..MaxAdditional : Reserve(additional)

SpecVecBox == InitVecBox /\ [][NextVecBox]_vars

\* RelBox::deref on the element at index i (from 1) of a vector at `at`
\* whose pointer field holds off: the address its ptr field resolves to.
BoxPointee(at, off, elems, i) ==
    RelPtrAsMutPtr(base + at + off + (i - 1) * ElemSize, elems[i].ptr)

\* The address the alloc field of that element resolves to.
BoxAllocator(at, off, elems, i) ==
    RelPtrAsMutPtr(base + at + off + (i - 1) * ElemSize + REL_PTR_SIZE,
                   elems[i].alloc)

\* C20: when reserve(additional) returns, capacity >= len + additional and
\* len and the elements are as before; when capacity was already
\* >= len + additional it makes no allocator call and leaves capacity, the
\* buffer pointer and the slab untouched.
C20_Reserve ==
    [][(vLast'.op = "reserve" /\ vLast'.ret = "Ok") =>
          /\ vCap' >= vLen' + vLast'.arg
          /\ vLen' = vLen
          /\ vElems' = vElems
          /\ (vCap >= vLen + vLast'.arg) =>
                /\ vLast'.calls = 0
                /\ vCap' = vCap
                /\ vOff' = vOff
                /\ len' = len]_vars

NumVals == 3

ValIds == 1..NumVals

NoValOp == [op |-> "none", on |-> 0, out |-> "none"]

\* Drop for Val: T::drop_raw runs on the value.
DropForVal(runs) == runs + 1

ManuallyDropNew_Drops(runs) == runs + 1

\* ManuallyDrop::new(v): the Val is consumed and its Drop never runs.
ManuallyDropNew(runs) == runs

\* Val::drop: the Slot is made from the pointer, then drop(this) runs
\* Drop for Val, and the Slot is returned.
ValDrop(i) ==
    /\ UNCHANGED <<slabVars, moveVars, chkVars, tokVars, ptrVars, vecVars>>
    /\ hHandle[i] = "Val"
    /\ hRuns' = [hRuns EXCEPT ![i] = DropForVal(hRuns[i])]
    /\ hHandle' = [hHandle EXCEPT ![i] = "Slot"]
    /\ hLast' = [op |-> "drop", on |-> i, out |-> "Slot"]

\* Val::forget: the Val goes into ManuallyDrop and a Slot of its memory is
\* returned.
ValForget(i) ==
    /\ UNCHANGED <<slabVars, moveVars, chkVars, tokVars, ptrVars, vecVars>>
    /\ hHandle[i] = "Val"
    /\ hRuns' = [hRuns EXCEPT ![i] = ManuallyDropNew(hRuns[i])]
    /\ hHandle' = [hHandle EXCEPT ![i] = "Slot"]
    /\ hLast' = [op |-> "forget", on |-> i, out |-> "Slot"]

\* Val::leak: the Val goes into ManuallyDrop and a Mut to the value is
\* returned.
ValLeak(i) ==
    /\ UNCHANGED <<slabVars, moveVars, chkVars, tokVars, ptrVars, vecVars>>
    /\ hHandle[i] = "Val"
    /\ hRuns' = [hRuns EXCEPT ![i] = ManuallyDropNew(hRuns[i])]
    /\ hHandle' = [hHandle EXCEPT ![i] = "Mut"]
    /\ hLast' = [op |-> "leak", on |-> i, out |-> "Mut"]

\* A Val goes out of scope: Drop for Val runs and no handle is left.
ValOutOfScope(i) ==
    /\ UNCHANGED <<slabVars, moveVars, chkVars, tokVars, ptrVars, vecVars>>
    /\ hHandle[i] = "Val"
    /\ hRuns' = [hRuns EXCEPT ![i] = DropForVal(hRuns[i])]
    /\ hHandle' = [hHandle EXCEPT ![i] = "none"]
    /\ hLast' = [op |-> "scope", on |-> i, out |-> "none"]

\* Every value is initialised and owned by a Val.
InitVal ==
    /\ IdleSlab /\ IdleMove /\ IdleChecked /\ IdleToken /\ IdlePtr /\ IdleVec
    /\ hHandle = [i \in ValIds |-> "Val"]
    /\ hRuns = [i \in ValIds |-> 0]
    /\ hLast = NoValOp

NextVal ==
    \/ \E i \in ValIds : ValDrop(i)
    \/ \E i \in ValIds : ValForget(i)
    \/ \E i \in ValIds : ValLeak(i)
    \/ \E i \in ValIds : ValOutOfScope(i)

SpecVal == InitVal /\ [][NextVal]_vars

\* C22: Val::drop runs the raw destructor exactly once and returns the
\* slot; forget returns the slot and leak returns the exclusive handle with
\* no destructor run; a Val going out of scope runs it exactly once; once
\* the Val is consumed the destructor of that value never runs again.
C22_ValDestructor ==
    [][\A i \in ValIds :
          /\ (hLast'.on = i /\ hLast'.op = "drop") =>
                (hRuns'[i] = 1 /\ hRuns[i] = 0 /\ hHandle'[i] = "Slot")
          /\ (hLast'.on = i /\ hLast'.op = "forget") =>
                (hRuns'[i] = 0 /\ hHandle'[i] = "Slot")
          /\ (hLast'.on = i /\ hLast'.op = "leak") =>
                (hRuns'[i] = 0 /\ hHandle'[i] = "Mut")
          /\ (hLast'.on = i /\ hLast'.op = "scope") =>
                (hRuns'[i] = 1 /\ hRuns[i] = 0 /\ hHandle'[i] = "none")
          /\ (hHandle[i] # "Val") =>
                (hRuns'[i] = hRuns[i] /\ hHandle'[i] = hHandle[i])]_vars

\* One value was dropped explicitly, one forgotten and one leaked.
C22_Witness ==
    /\ hLast \in [op : {"drop", "forget", "leak", "scope"}, on : ValIds,
                   out : {"Slot", "Mut", "none"}]
    /\ \E i, j, k \in ValIds :
          /\ hHandle[i] = "Slot" /\ hRuns[i] = 1
          /\ hHandle[j] = "Slot" /\ hRuns[j] = 0
          /\ hHandle[k] = "Mut" /\ hRuns[k] = 0

C24_GrowthKeepsPointees ==
    [][(/\ last' = last
        /\ vLast'.op \in {"push", "reserve"}
        /\ vLast'.ret = "Ok"
        /\ vLast'.calls > 0) =>
          /\ vAt' = vAt
          /\ vAt + vOff' >= len
          /\ vAt + vOff' + vCap' * ElemSize <= len'
          /\ vCap' > vCap
          /\ vLen' = vLen + (IF vLast'.op = "push" THEN 1 ELSE 0)
          /\ Len(vElems') = vLen'
          /\ \A i \in 1..vLen :
                /\ BoxPointee(vAt', vOff', vElems', i)
                      = BoxPointee(vAt, vOff, vElems, i)
                /\ BoxPointee(vAt', vOff', vElems', i) # 0
                /\ BoxAllocator(vAt', vOff', vElems', i) = base
          /\ (vLast'.op = "push") =>
                /\ BoxPointee(vAt', vOff', vElems', vLen') = vLast'.arg
                /\ BoxAllocator(vAt', vOff', vElems', vLen') = base]_vars

\* A push has just moved two boxes into a larger buffer.
C24_Witness ==
    /\ vKind = "RelBox"
    /\ vPc = "live"
    /\ vLast.op = "push"
    /\ vLast.ret = "Ok"
    /\ vLast.calls > 0
    /\ vLen = 3
    /\ vCap = 4
    /\ \A i \in 1..vLen : BoxPointee(vAt, vOff, vElems, i) > base
    /\ \A i, j \in 1..vLen :
          (i # j) => BoxPointee(vAt, vOff, vElems, i)
                        # BoxPointee(vAt, vOff, vElems, j)

\* C25: when extend returns, the vector holds its previous elements
\* followed by every item the iterator yielded, in order, whatever the
\* lower bound of the size hint was; len is the old len plus the number of
\* items, and no slot at or beyond len counts as initialised.
C25_Extend ==
    [][(vLast'.op = "extend" /\ vLast'.ret = "Ok") =>
          /\ vElems' = vElems \o vLast'.arg.items
          /\ vLen' = vLen + Len(vLast'.arg.items)
          /\ Len(vElems') = vLen'
          /\ vLen' <= vCap']_vars

\* extend returned after appending two different items whose iterator
\* announced only one: the first was emplaced, the second pushed.
C25_Witness ==
    /\ vPc = "live"
    /\ vLast.op = "extend"
    /\ vLast.ret = "Ok"
    /\ vLast.arg.items = <<1, 2>>
    /\ vLast.arg.hint = 1
    /\ vLast.calls > 3
    /\ vLen > 2

\* C26: try_from_bytes on a buffer that an earlier session populated and
\* did not shrink succeeds and leaves root, used length and capacity as
\* stored; afterwards every allocation starts at or after the stored used
\* length and after the root value, and withdraw returns the root the
\* earlier session deposited.
C26_ReopenInPlace ==
    [][/\ (last'.op = "try_from_bytes" /\ last.op = "end_session") =>
             /\ last'.ret = "Ok"
             /\ phase' = "open"
             /\ root' = root /\ len' = len /\ cap' = cap
       /\ (relocs > 0 /\ last' # last /\ last'.ret = "Ok"
             /\ last'.op \in {"allocate", "emplace_in"}) =>
             /\ len' >= len
             /\ len' - last'.size >= len
             /\ (rootObj # 0) =>
                   base + len' - last'.size >= rootObj + KindSize("I32")
       /\ (relocs > 0 /\ last' # last /\ last'.op = "withdraw") =>
             IF rootObj # 0
             THEN last'.ret = "Some" /\ last'.out = rootObj
             ELSE last'.ret = "None"]_vars

\* C27: try_new_in establishes root = 0, used length = size of the control
\* block and capacity = buffer length, and in every state reached from
\* there the size of the control block <= used length <= capacity <=
\* buffer length.
C27_ControlBlockInvariant ==
    /\ (last.op = "try_new_in" /\ last.ret = "Ok") =>
          (root = 0 /\ len = CONTROL_SIZE /\ cap = buflen)
    /\ (phase \in {"open", "panicked"}) =>
          (CONTROL_SIZE <= len /\ len <= cap /\ cap <= buflen)

\* C28: every range allocate returns, on a slab opened by try_new_in or
\* reopened by try_from_bytes, lies between the end of the control block
\* and the capacity, is aligned as requested, and starts at or after the
\* used length, below which all earlier ranges lie.
C28_AllocatedRanges ==
    [][(last'.op = "allocate" /\ last' # last /\ last'.ret = "Ok") =>
          /\ last'.out >= CONTROL_SIZE
          /\ last'.out + last'.size <= cap
          /\ (base + last'.out) % last'.align = 0
          /\ last'.out >= len
          /\ len' = last'.out + last'.size]_vars

\* C29: after every operation on a vector (emplacement with a capacity,
\* reserve, push, extend, clear) len <= capacity, the initialised slots are
\* exactly those below len, and the capacity is not smaller than before.
C29_VecInvariant ==
    [][(vPc' \in {"live", "panicked"}) =>
          /\ vLen' <= vCap'
          /\ Len(vElems') = vLen'
          /\ (vPc = "live") => (vCap' >= vCap)]_vars

\* extend has filled a vector up to its capacity of four elements without
\* an allocator call.
C29_Witness ==
    /\ vPc = "live"
    /\ vLast.op = "extend"
    /\ vLast.ret = "Ok"
    /\ vLast.calls = 0
    /\ vLen = 4
    /\ vCap = 4
    /\ Len(vElems) = 4

====
